---- MODULE Spec2Model ----
(***************************************************************************)
(* Model of slic3r/GUI/GUI_Utils.cpp: the window-geometry notifier         *)
(* (on_window_geometry), the DPI resolver (get_dpi_for_window with its     *)
(* lazily resolved WinAPI entry points) and the WindowMetrics value type   *)
(* (from_window, serialize, deserialize, sanitize_for_display).            *)
(*                                                                         *)
(* Strings are sequences of one-character strings, so that formatting and  *)
(* parsing are computed character by character.                            *)
(***************************************************************************)
EXTENDS Integers, Sequences, FiniteSets, TLC

VARIABLES
    platform,   \* the build target: "win32", "linux" or "apple"
    \* ---- WindowMetrics ----
    metrics,    \* the WindowMetrics value at hand, or NoMetrics
    stored,     \* the persisted geometry string
    parsed,     \* boost::optional<WindowMetrics> returned by the last deserialize
    mop,        \* the last WindowMetrics operation
    given,      \* what the last operation was given (the fields written to the
                \* settings store, or the rectangle and screen handed to sanitize)
    \* ---- on_window_geometry ----
    window,     \* the top-level window: "alive" or "destroyed"
    visible,    \* whether the window is shown
    registered, \* whether on_window_geometry has been called
    handlers,   \* the wxEVT_SHOW handlers bound to the window
    pending,    \* the queued asynchronous calls, by the event handler that owns them
    trace,      \* the order of events observed so far
    \* ---- get_dpi_for_window ----
    caps,       \* what the running system offers: DLLs that load, functions they export
    dll_handle, \* static dll_handle of each winapi_get_function<F>
    fn,         \* static GetDpiForWindow_fn, GetDpiForMonitor_fn
    lookups,    \* calls of winapi_get_function<F> so far, per F
    dpi,        \* the value the last get_dpi_for_window returned
    branch,     \* the branch the last get_dpi_for_window took
    first,      \* the branch the first get_dpi_for_window took
    ncalls      \* calls of get_dpi_for_window so far

mvars == <<metrics, stored, parsed, mop, given>>
nvars == <<window, visible, registered, handlers, pending, trace>>
dvars == <<caps, dll_handle, fn, lookups, dpi, branch, first, ncalls>>
vars == <<platform, mvars, nvars, dvars>>

Platforms == {"win32", "linux", "apple"}

(***************************************************************************)
(* int: 32 bits, two's complement.                                         *)
(***************************************************************************)
IntMax == 2147483647
IntMin == (-IntMax) - 1

\* a + b in 32 bits, as the value a build stores: signed overflow is undefined
\* in C++, and a stored result is the two's complement wraparound. What a build
\* makes of a comparison between overflowing expressions is modelled where the
\* comparison is (Exceeds).
AddInt(a, b) ==
    IF b >= 0
    THEN IF a > IntMax - b THEN (a + IntMin) + (b + IntMin) ELSE a + b
    ELSE IF a < IntMin - b THEN (a - IntMin) + (b - IntMin) ELSE a + b

\* a - b in 32 bits as the value a build stores, as AddInt.
SubInt(a, b) ==
    IF b > 0
    THEN IF a < IntMin + b THEN (a - IntMin) + ((IntMax - b) + 1) ELSE a - b
    ELSE IF a > IntMax + b THEN (a + IntMin) + (IntMin - b) ELSE a - b

\* 4 * a in 32 bits as the value a build stores.
Mul4Int(a) == AddInt(AddInt(a, a), AddInt(a, a))

\* a / b of C++ for b > 0: the quotient truncated towards zero.
DivInt(a, b) == IF a >= 0 \/ a % b = 0 THEN a \div b ELSE (a \div b) + 1

\* x & ~1 : the low bit cleared.
AndNot1(x) == x - (x % 2)

Min(a, b) == IF a < b THEN a ELSE b

(***************************************************************************)
(* Characters and decimal text.                                            *)
(***************************************************************************)
Digits == <<"0", "1", "2", "3", "4", "5", "6", "7", "8", "9">>

DigitChar(d) == Digits[d + 1]

IsDigit(c) == \E d \in 1..10 : Digits[d] = c

DigitVal(c) == (CHOOSE d \in 1..10 : Digits[d] = c) - 1

\* The decimal digits of -n for n <= 0 ("" for 0); works on n so that the
\* most negative int needs no negation.
RECURSIVE NegDigits(_)
NegDigits(n) ==
    IF n = 0 THEN <<>>
    ELSE LET d == (10 - (n % 10)) % 10
         IN  NegDigits((n + d) \div 10) \o <<DigitChar(d)>>

\* operator<<(std::ostream&, int), which boost::format applies to each argument.
IntToStr(n) ==
    IF n = 0 THEN <<"0">>
    ELSE IF n < 0 THEN <<"-">> \o NegDigits(n)
    ELSE NegDigits(-n)

\* The digits of body from position i on, accumulated as a non-positive number
\* starting from acc; "overflow" once the magnitude exceeds 2^31.
RECURSIVE NegAccum(_, _, _)
NegAccum(body, i, acc) ==
    IF i > Len(body) THEN [ok |-> TRUE, val |-> acc]
    ELSE LET d == DigitVal(body[i])
             lim == IF d <= 8 THEN 214748364 ELSE 214748363
         IN  IF acc < -lim THEN [ok |-> FALSE, val |-> 0]
             ELSE NegAccum(body, i + 1, acc * 10 - d)

\* boost::lexical_cast<int>(s): an optional sign, then decimal digits only, the
\* whole of s consumed and the value in the range of int; anything else throws
\* bad_lexical_cast (ok = FALSE).
lexical_cast_int(s) ==
    LET signed == Len(s) > 0 /\ s[1] \in {"+", "-"}
        neg == Len(s) > 0 /\ s[1] = "-"
        body == IF signed THEN Tail(s) ELSE s
    IN  IF body = <<>> \/ \E i \in 1..Len(body) : ~IsDigit(body[i])
        THEN [ok |-> FALSE, val |-> 0]
        ELSE LET r == NegAccum(body, 1, 0)
             IN  IF ~r.ok THEN r
                 ELSE IF neg THEN r
                 ELSE IF r.val < -IntMax THEN [ok |-> FALSE, val |-> 0]
                 ELSE [ok |-> TRUE, val |-> -r.val]

(***************************************************************************)
(* unescape_strings_cstyle (libslic3r/Config): splits on ';', skipping     *)
(* blanks before a field; a field may be enclosed in double quotes, with   *)
(* backslash escapes inside.                                               *)
(***************************************************************************)
IsBlank(c) == c \in {" ", "\t"}

\* The first position >= i that holds no blank; Len(str) + 1 when there is none.
RECURSIVE SkipBlanks(_, _)
SkipBlanks(str, i) ==
    IF i > Len(str) THEN i
    ELSE IF IsBlank(str[i]) THEN SkipBlanks(str, i + 1)
    ELSE i

\* The first position >= i that holds ';'; Len(str) + 1 when there is none.
RECURSIVE FindSemicolon(_, _)
FindSemicolon(str, i) ==
    IF i > Len(str) THEN i
    ELSE IF str[i] = ";" THEN i
    ELSE FindSemicolon(str, i + 1)

\* The body of a quoted field read from position i (after the opening quote):
\* ok = FALSE when the string ends inside it; else next is the position after
\* the closing quote.
RECURSIVE ReadQuoted(_, _, _)
ReadQuoted(str, i, buf) ==
    IF i > Len(str) THEN [ok |-> FALSE, next |-> i, buf |-> buf]
    ELSE IF str[i] = "\"" THEN [ok |-> TRUE, next |-> i + 1, buf |-> buf]
    ELSE IF str[i] = "\\"
         THEN IF i + 1 > Len(str) THEN [ok |-> FALSE, next |-> i, buf |-> buf]
              ELSE LET c == IF str[i + 1] = "n" THEN "\n" ELSE str[i + 1]
                   IN  ReadQuoted(str, i + 2, Append(buf, c))
    ELSE ReadQuoted(str, i + 1, Append(buf, str[i]))

\* One turn of the splitting loop, entered at position i <= Len(str).
RECURSIVE SplitFrom(_, _, _)
SplitFrom(str, i, out) ==
    LET j == SkipBlanks(str, i)
    IN  IF j > Len(str) THEN [ok |-> TRUE, out |-> out]
        ELSE LET quoted == str[j] = "\""
                 q == ReadQuoted(str, j + 1, <<>>)
                 e == FindSemicolon(str, j)
                 fok == IF quoted THEN q.ok ELSE TRUE
                 k == IF quoted THEN q.next ELSE e
                 buf == IF quoted THEN q.buf ELSE SubSeq(str, j, e - 1)
                 out2 == Append(out, buf)
                 k2 == SkipBlanks(str, k)
             IN  IF ~fok THEN [ok |-> FALSE, out |-> out]
                 ELSE IF k > Len(str) THEN [ok |-> TRUE, out |-> out2]
                 ELSE IF k2 > Len(str) THEN [ok |-> TRUE, out |-> out2]
                 ELSE IF str[k2] # ";" THEN [ok |-> FALSE, out |-> out2]
                 ELSE IF k2 + 1 > Len(str)
                      THEN [ok |-> TRUE, out |-> Append(out2, <<>>)]
                 ELSE SplitFrom(str, k2 + 1, out2)

unescape_strings_cstyle(str) ==
    IF str = <<>> THEN [ok |-> TRUE, out |-> <<>>]
    ELSE SplitFrom(str, 1, <<>>)

(***************************************************************************)
(* WindowMetrics                                                           *)
(***************************************************************************)
NoMetrics == [none |-> TRUE]

wxRect(x, y, w, h) == [x |-> x, y |-> y, width |-> w, height |-> h]

WindowMetrics(rect, maximized) == [rect |-> rect, maximized |-> maximized]

\* static_cast<int>(bool)
BoolToInt(b) == IF b THEN 1 ELSE 0

Sep == <<";", " ">>

\* A plausible slip: height written before width.
serialize_swapped(m) ==
    IntToStr(m.rect.x) \o Sep \o IntToStr(m.rect.y) \o Sep
        \o IntToStr(m.rect.height) \o Sep \o IntToStr(m.rect.width) \o Sep
        \o IntToStr(BoolToInt(m.maximized))

\* WindowMetrics::serialize: boost::format("%1%; %2%; %3%; %4%; %5%")
serialize(m) ==
    IntToStr(m.rect.x) \o Sep \o IntToStr(m.rect.y) \o Sep
        \o IntToStr(m.rect.width) \o Sep \o IntToStr(m.rect.height) \o Sep
        \o IntToStr(BoolToInt(m.maximized))

\* A plausible slip: the low bit alone decides (metrics[4] & 1).
MaximizedFlag_lowbit(v) == v % 2

\* The maximized field as deserialize normalises it.
MaximizedFlag(v) == IF AndNot1(v) # 0 THEN 0 ELSE v

\* A plausible slip: "fewer than five" checked instead of "other than five".
deserialize_at_least_five(str) ==
    LET u == unescape_strings_cstyle(str)
    IN  IF ~u.ok \/ Len(u.out) < 5 THEN NoMetrics
        ELSE LET c == [i \in 1..5 |-> lexical_cast_int(u.out[i])]
             IN  IF \E i \in 1..5 : ~c[i].ok THEN NoMetrics
                 ELSE WindowMetrics(wxRect(c[1].val, c[2].val, c[3].val, c[4].val),
                                    MaximizedFlag(c[5].val) # 0)

\* WindowMetrics::deserialize: NoMetrics is boost::none.
deserialize(str) ==
    LET u == unescape_strings_cstyle(str)
    IN  IF ~u.ok \/ Len(u.out) # 5 THEN NoMetrics
        ELSE LET c == [i \in 1..5 |-> lexical_cast_int(u.out[i])]
             IN  IF \E i \in 1..5 : ~c[i].ok THEN NoMetrics
                 ELSE WindowMetrics(wxRect(c[1].val, c[2].val, c[3].val, c[4].val),
                                    MaximizedFlag(c[5].val) # 0)

\* WindowMetrics::from_window: the window's screen rectangle and maximized state.
from_window(w) == WindowMetrics(w.rect, w.maximized)

\* wxRect::GetRight / GetBottom: x + width - 1.
GetRight(r) == SubInt(AddInt(r.x, r.width), 1)

GetBottom(r) == SubInt(AddInt(r.y, r.height), 1)

\* What a build makes of the undefined signed overflow in the test
\* "x2 > rect.GetRight()" of wxRect::Intersect: "stored" compares the far edges
\* as stored (each wrapped), "folded" cancels the -1 of both sides and compares
\* the wrapped sums (an optimising build). Without overflow the two agree.
Builds == {"stored", "folded"}

\* The test x2 > rect.GetRight() (y2 > rect.GetBottom()) for one axis, the
\* rectangle at org with extent ext, the other at sorg with extent sext.
Exceeds(org, ext, sorg, sext, b) ==
    IF b = "folded"
    THEN AddInt(org, ext) > AddInt(sorg, sext)
    ELSE SubInt(AddInt(org, ext), 1) > SubInt(AddInt(sorg, sext), 1)

\* wxRect::Intersect (wxWidgets, common/gdicmn.cpp), called by
\* sanitize_for_display, in build b: the corners are clamped to those of s, the
\* extent is recomputed from them, and an empty intersection gets a zero size.
Intersect(r, s, b) ==
    LET x == IF r.x < s.x THEN s.x ELSE r.x
        y == IF r.y < s.y THEN s.y ELSE r.y
        x2 == IF Exceeds(r.x, r.width, s.x, s.width, b) THEN GetRight(s) ELSE GetRight(r)
        y2 == IF Exceeds(r.y, r.height, s.y, s.height, b) THEN GetBottom(s) ELSE GetBottom(r)
        w == AddInt(SubInt(x2, x), 1)
        h == AddInt(SubInt(y2, y), 1)
    IN  IF w <= 0 \/ h <= 0 THEN wxRect(x, y, 0, 0) ELSE wxRect(x, y, w, h)

\* The 80% threshold of one axis: origin + 4*extent/5, in int.
Threshold(origin, extent) == AddInt(origin, DivInt(Mul4Int(extent), 5))

\* A plausible slip: the intersection alone, the top-left left where it is.
sanitize_unclamped(m, screen_rect, b) ==
    WindowMetrics(Intersect(m.rect, screen_rect, b), m.maximized)

\* WindowMetrics::sanitize_for_display, in build b.
sanitize_for_display(m, screen_rect, b) ==
    LET r == Intersect(m.rect, screen_rect, b)
    IN  WindowMetrics(wxRect(Min(r.x, Threshold(screen_rect.x, screen_rect.width)),
                             Min(r.y, Threshold(screen_rect.y, screen_rect.height)),
                             r.width, r.height),
                      m.maximized)

(***************************************************************************)
(* on_window_geometry                                                      *)
(*                                                                         *)
(* The trace records what runs and inside what: "on_window_geometry(" and  *)
(* ")on_window_geometry" enclose the registration call, "wxEVT_SHOW(" and  *)
(* ")wxEVT_SHOW" the delivery of one show event to the window, "pending("  *)
(* and ")pending" the dispatch of one queued call by the event loop.       *)
(***************************************************************************)
MaxShows == 3

Count(seq, e) == Cardinality({i \in 1..Len(seq) : seq[i] = e})

\* The lambda queued by CallAfter (line 45): [=]() { callback(); }
AsyncCall(tr) == tr \o <<"callback">>

\* A plausible slip: the Linux handler calls the callback itself.
ShowHandler_sync(p, s) ==
    [s EXCEPT !.trace = @ \o <<"callback", "Skip">>]

\* A plausible slip: the call is queued on the application object, which
\* outlives the window.
ShowHandler_app_queue(p, s) ==
    IF p = "linux"
    THEN [s EXCEPT !.pending = Append(@, "app"), !.trace = @ \o <<"CallAfter", "Skip">>]
    ELSE [s EXCEPT !.trace = @ \o <<"callback", "Skip">>]

\* The wxEVT_SHOW handler bound on platform p, run on s = [pending, trace].
\* Linux: tlw->CallAfter(...); evt.Skip().  macOS: callback(); evt.Skip().
ShowHandler(p, s) ==
    IF p = "linux"
    THEN [s EXCEPT !.pending = Append(@, "tlw"), !.trace = @ \o <<"CallAfter", "Skip">>]
    ELSE [s EXCEPT !.trace = @ \o <<"callback", "Skip">>]

\* on_window_geometry(tlw, callback) on platform p, run on s = [handlers, trace].
on_window_geometry(p, s) ==
    IF p = "win32"
    THEN [s EXCEPT !.trace = @ \o <<"callback">>]
    ELSE [s EXCEPT !.handlers = @ + 1, !.trace = @ \o <<"Bind">>]

\* The window as constructed: nothing registered, nothing queued.
InitWindow ==
    /\ window = "alive"
    /\ visible = FALSE
    /\ registered = FALSE
    /\ handlers = 0
    /\ pending = <<>>
    /\ trace = <<>>

\* The application calls on_window_geometry once.
Register ==
    /\ window = "alive"
    /\ ~registered
    /\ registered' = TRUE
    /\ LET s == on_window_geometry(platform,
                    [handlers |-> handlers, trace |-> trace \o <<"on_window_geometry(">>])
       IN  /\ handlers' = s.handlers
           /\ trace' = s.trace \o <<")on_window_geometry">>
    /\ UNCHANGED <<platform, window, visible, pending, mvars, dvars>>

\* The toolkit delivers wxEVT_SHOW (the window was shown or hidden) to the
\* window, which runs the bound handler.
ShowEvent ==
    /\ window = "alive"
    /\ Count(trace, "wxEVT_SHOW(") < MaxShows
    /\ visible' = ~visible
    /\ LET s0 == [pending |-> pending, trace |-> trace \o <<"wxEVT_SHOW(">>]
           s1 == IF handlers > 0 THEN ShowHandler(platform, s0) ELSE s0
       IN  /\ pending' = s1.pending
           /\ trace' = s1.trace \o <<")wxEVT_SHOW">>
    /\ UNCHANGED <<platform, window, registered, handlers, mvars, dvars>>

\* An iteration of the event loop dispatches the oldest queued call.
ProcessPending ==
    /\ pending # <<>>
    /\ pending' = Tail(pending)
    /\ trace' = AsyncCall(trace \o <<"pending(">>) \o <<")pending">>
    /\ UNCHANGED <<platform, window, visible, registered, handlers, mvars, dvars>>

\* The window is destroyed: wxEvtHandler's destructor drops its handlers and
\* the events still queued for it.
Destroy ==
    /\ window = "alive"
    /\ window' = "destroyed"
    /\ visible' = FALSE
    /\ handlers' = 0
    /\ pending' = SelectSeq(pending, LAMBDA o : o # "tlw")
    /\ trace' = trace \o <<"destroy">>
    /\ UNCHANGED <<platform, registered, mvars, dvars>>

(***************************************************************************)
(* get_dpi_for_window                                                      *)
(***************************************************************************)
DPI_DEFAULT == 96
MaxDpiCalls == 3

Capabilities == {"GetDpiForWindow", "GetDpiForMonitor"}

\* The DLL that exports each function: User32.dll, Shcore.dll.
DllOf(F) == IF F = "GetDpiForWindow" THEN "User32.dll" ELSE "Shcore.dll"

\* What a system may offer: for each DLL whether LoadLibraryExW finds it, for
\* each function whether GetProcAddress finds it.
Systems ==
    {[dll |-> d, proc |-> q] :
        d \in [{"User32.dll", "Shcore.dll"} -> BOOLEAN], q \in [Capabilities -> BOOLEAN]}

NoSystem ==
    [dll |-> [d \in {"User32.dll", "Shcore.dll"} |-> FALSE],
     proc |-> [F \in Capabilities |-> FALSE]]

\* Values a DPI query reports for a window or monitor.
DpiValues == {72, 96, 120, 144}

\* What an uninitialised UINT may hold.
Uninitialised == {-1, 0, 7}

\* winapi_get_function<F>(dll, fn_name) with static dll_handle h ("unset"
\* before its initialisation): the handle afterwards and the pointer returned.
winapi_get_function(F, h, sys) ==
    LET h2 == IF h = "unset"
              THEN (IF sys.dll[DllOf(F)] THEN "loaded" ELSE "null")
              ELSE h
    IN  [dll_handle |-> h2,
         fn |-> IF h2 = "null" THEN "null"
                ELSE IF sys.proc[F] THEN "found" ELSE "null"]

\* A plausible slip: the pointer is no static, it is looked up at every call.
StaticFn_every_call(F, st, sys) ==
    LET r == winapi_get_function(F, st.dll_handle[F], sys)
    IN  [st EXCEPT !.dll_handle[F] = r.dll_handle,
                   !.fn[F] = r.fn,
                   !.lookups[F] = @ + 1]

\* static auto F_fn = winapi_get_function<F_t>(...): initialised by the first
\* execution of the declaration, read afterwards. st = [dll_handle, fn, lookups].
StaticFn(F, st, sys) ==
    IF st.fn[F] # "unset" THEN st
    ELSE LET r == winapi_get_function(F, st.dll_handle[F], sys)
         IN  [st EXCEPT !.dll_handle[F] = r.dll_handle,
                        !.fn[F] = r.fn,
                        !.lookups[F] = @ + 1]

\* A plausible slip: dpiX is returned whatever GetDpiForMonitor answered.
dpi_chain_unchecked(f, q) ==
    IF f["GetDpiForWindow"] # "null"
    THEN [dpi |-> q.window_dpi, branch |-> "window"]
    ELSE IF f["GetDpiForMonitor"] # "null"
    THEN [dpi |-> q.dpiX, branch |-> IF q.monitor_ok THEN "monitor" ELSE "monitor_failed"]
    ELSE IF ~q.dc_ok THEN [dpi |-> DPI_DEFAULT, branch |-> "no_dc"]
    ELSE [dpi |-> q.logpixelsx, branch |-> "dc"]

\* The fallback chain of get_dpi_for_window on Windows (lines 89-106), given
\* the two function pointers f and the answers q of the system calls.
dpi_chain(f, q) ==
    IF f["GetDpiForWindow"] # "null"
    THEN [dpi |-> q.window_dpi, branch |-> "window"]
    ELSE IF f["GetDpiForMonitor"] # "null"
    THEN IF q.monitor_ok THEN [dpi |-> q.dpiX, branch |-> "monitor"]
         ELSE [dpi |-> DPI_DEFAULT, branch |-> "monitor_failed"]
    ELSE IF ~q.dc_ok THEN [dpi |-> DPI_DEFAULT, branch |-> "no_dc"]
    ELSE [dpi |-> q.logpixelsx, branch |-> "dc"]

\* The answers the system calls may give for a valid window (or the desktop
\* window): dpiX is written only when GetDpiForMonitor returns S_OK.
Answers ==
    {[window_dpi |-> a, monitor_ok |-> ok, dpiX |-> x, dc_ok |-> dc, logpixelsx |-> l] :
        a \in DpiValues, ok \in BOOLEAN, x \in DpiValues \cup Uninitialised,
        dc \in BOOLEAN, l \in DpiValues}

\* The level of the fallback chain a branch belongs to.
Level(b) ==
    CASE b = "window" -> "per-window"
      [] b \in {"monitor", "monitor_failed"} -> "per-monitor"
      [] b \in {"dc", "no_dc"} -> "legacy"
      [] OTHER -> b

InitDpi(systems) ==
    /\ caps \in systems
    /\ dll_handle = [F \in Capabilities |-> "unset"]
    /\ fn = [F \in Capabilities |-> "unset"]
    /\ lookups = [F \in Capabilities |-> 0]
    /\ dpi = DPI_DEFAULT
    /\ branch = "none"
    /\ first = "none"
    /\ ncalls = 0

\* get_dpi_for_window(window), window a window or nullptr.
get_dpi_for_window ==
    /\ ncalls < MaxDpiCalls
    /\ ncalls' = ncalls + 1
    /\ \E w \in {"nullptr", "window"} :
        IF platform = "win32"
        THEN LET st0 == [dll_handle |-> dll_handle, fn |-> fn, lookups |-> lookups]
                 st1 == StaticFn("GetDpiForWindow", st0, caps)
                 st2 == StaticFn("GetDpiForMonitor", st1, caps)
             IN  /\ dll_handle' = st2.dll_handle
                 /\ fn' = st2.fn
                 /\ lookups' = st2.lookups
                 /\ \E q \in Answers :
                      /\ q.monitor_ok <=> q.dpiX \in DpiValues
                      /\ LET r == dpi_chain(st2.fn, q)
                         IN  /\ dpi' = r.dpi
                             /\ branch' = r.branch
                             /\ first' = IF ncalls = 0 THEN r.branch ELSE first
        ELSE /\ dpi' = DPI_DEFAULT
             /\ branch' = "stub"
             /\ first' = IF ncalls = 0 THEN "stub" ELSE first
             /\ UNCHANGED <<dll_handle, fn, lookups>>
    /\ UNCHANGED <<platform, caps, mvars, nvars>>

(***************************************************************************)
(* Inputs of the WindowMetrics operations.                                 *)
(***************************************************************************)
MaxCoord == 10
MaxFields == 6
MaxPos == 5
MaxSize == 2
MaxScreenPos == 1
MaxScreen == 6

\* Window positions and extents a toolkit may report.
Coords == (-MaxCoord..MaxCoord) \cup {IntMin, IntMax}

Extents == {-1, 0, 1, 10 * MaxCoord, IntMax}

Windows ==
    {[rect |-> wxRect(x, y, w, h), maximized |-> b] :
        x \in Coords, y \in Coords, w \in Extents, h \in Extents, b \in BOOLEAN}

\* A field of a settings line: its text, whether it is the decimal text of an
\* int, and then its value.
Tok(text, int, val) == [text |-> text, int |-> int, val |-> val]

RectTokens ==
    { Tok(<<"7">>, TRUE, 7), Tok(<<"-", "2">>, TRUE, -2), Tok(<<"1", "0">>, TRUE, 10),
      Tok(<<"x">>, FALSE, 0), Tok(<<>>, FALSE, 0), Tok(<<"1", "x">>, FALSE, 0) }

FlagTokens ==
    { Tok(<<"0">>, TRUE, 0), Tok(<<"1">>, TRUE, 1), Tok(<<"2">>, TRUE, 2),
      Tok(<<"3">>, TRUE, 3), Tok(<<"5">>, TRUE, 5), Tok(<<"-", "1">>, TRUE, -1),
      Tok(<<"-", "2">>, TRUE, -2),
      Tok(<<"2", "1", "4", "7", "4", "8", "3", "6", "4", "7">>, TRUE, IntMax),
      Tok(<<"-", "2", "1", "4", "7", "4", "8", "3", "6", "4", "8">>, TRUE, IntMin),
      Tok(<<"2", "1", "4", "7", "4", "8", "3", "6", "4", "8">>, FALSE, 0),
      Tok(<<"x">>, FALSE, 0), Tok(<<>>, FALSE, 0) }

ExtraTokens == { Tok(<<"0">>, TRUE, 0) }

TokensAt(i) == IF i <= 4 THEN RectTokens ELSE IF i = 5 THEN FlagTokens ELSE ExtraTokens

\* Settings lines of n fields, the i-th drawn from TokensAt(i).
RECURSIVE FieldSeqs(_)
FieldSeqs(n) ==
    IF n = 0 THEN {<<>>}
    ELSE {Append(f, t) : f \in FieldSeqs(n - 1), t \in TokensAt(n)}

Separators == { <<";", " ">>, <<";">> }

RECURSIVE Join(_, _, _)
Join(f, sep, i) ==
    IF i > Len(f) THEN <<>>
    ELSE IF i = Len(f) THEN f[i].text
    ELSE f[i].text \o sep \o Join(f, sep, i + 1)

\* Rectangles as restored from the settings store, and screens.
Positions == (-1..MaxPos) \cup {IntMin, IntMax}

Sizes == (-1..MaxSize) \cup {IntMin, IntMax}

Restored ==
    {WindowMetrics(wxRect(x, y, w, h), FALSE) :
        x \in Positions, y \in Positions, w \in Sizes, h \in Sizes}

\* Screen extents: small ones, and one whose fourfold does not fit in an int.
ScreenExtents == (-1..MaxScreen) \cup {1000000000}

Screens ==
    {wxRect(x, y, w, h) :
        x \in 0..MaxScreenPos, y \in 0..MaxScreenPos,
        w \in ScreenExtents, h \in ScreenExtents}

\* WindowMetrics is compiled from the same lines on every platform (no #ifdef
\* in lines 170-231); its specifications run on one.
MetricsPlatform == "linux"

(***************************************************************************)
(* WindowMetrics operations as actions.                                    *)
(***************************************************************************)
Serialize ==
    /\ mop = "captured"
    /\ stored' = serialize(metrics)
    /\ mop' = "serialized"
    /\ UNCHANGED <<platform, metrics, parsed, given, nvars, dvars>>

Deserialize ==
    /\ mop \in {"serialized", "written"}
    /\ parsed' = deserialize(stored)
    /\ mop' = "deserialized"
    /\ UNCHANGED <<platform, metrics, stored, given, nvars, dvars>>

Sanitize ==
    /\ mop = "restored"
    /\ \E screen_rect \in Screens : \E b \in Builds :
        /\ metrics' = sanitize_for_display(metrics, screen_rect, b)
        /\ given' = [rect |-> metrics.rect, screen |-> screen_rect]
    /\ mop' = "sanitized"
    /\ UNCHANGED <<platform, stored, parsed, nvars, dvars>>

\* A window is captured, serialized and the string deserialized again.
InitRoundTrip ==
    /\ platform = MetricsPlatform
    /\ InitWindow
    /\ InitDpi({NoSystem})
    /\ \E w \in Windows : metrics = from_window(w)
    /\ stored = <<>>
    /\ parsed = NoMetrics
    /\ mop = "captured"
    /\ given = [none |-> TRUE]

NextRoundTrip == Serialize \/ Deserialize

SpecRoundTrip == InitRoundTrip /\ [][NextRoundTrip]_vars

\* A line of the settings store, well-formed or not, is deserialized.
InitParse ==
    /\ platform = MetricsPlatform
    /\ InitWindow
    /\ InitDpi({NoSystem})
    /\ metrics = NoMetrics
    /\ \E n \in 0..MaxFields : \E f \in FieldSeqs(n) : \E sep \in Separators :
        /\ stored = Join(f, sep, 1)
        /\ given = [fields |-> f, sep |-> sep]
    /\ parsed = NoMetrics
    /\ mop = "written"

NextParse == Deserialize

SpecParse == InitParse /\ [][NextParse]_vars

\* A restored rectangle is sanitized against a screen.
InitSanitize ==
    /\ platform = MetricsPlatform
    /\ InitWindow
    /\ InitDpi({NoSystem})
    /\ metrics \in Restored
    /\ stored = <<>>
    /\ parsed = NoMetrics
    /\ mop = "restored"
    /\ given = [none |-> TRUE]

NextSanitize == Sanitize

SpecSanitize == InitSanitize /\ [][NextSanitize]_vars

(***************************************************************************)
(* Properties of WindowMetrics.                                            *)
(***************************************************************************)

\* C1: deserialize(serialize(m)) is a non-empty result equal to m in x, y,
\* width, height and maximized, for negative and extreme int fields too.
C1_RoundTrip ==
    mop = "deserialized" =>
        /\ parsed # NoMetrics
        /\ parsed.rect.x = metrics.rect.x
        /\ parsed.rect.y = metrics.rect.y
        /\ parsed.rect.width = metrics.rect.width
        /\ parsed.rect.height = metrics.rect.height
        /\ parsed.maximized = metrics.maximized

C1_Witness ==
    /\ mop = "deserialized"
    /\ metrics.rect.x = IntMin
    /\ metrics.rect.y = -MaxCoord
    /\ metrics.rect.width = 10 * MaxCoord
    /\ metrics.maximized
    /\ parsed = metrics

\* C2: a settings line of fewer or more than five fields, or with a first,
\* second, third or fourth field that is no integer, deserializes to the
\* empty result (no exception leaves deserialize, no WindowMetrics is made).
C2_MalformedIsNone ==
    (/\ mop = "deserialized"
     /\ \/ Len(given.fields) # 5
        \/ \E i \in 1..Min(4, Len(given.fields)) : ~given.fields[i].int)
        => parsed = NoMetrics

C2_Witness ==
    /\ mop = "deserialized"
    /\ Len(given.fields) = MaxFields
    /\ \A i \in 1..Len(given.fields) : given.fields[i].int
    /\ parsed = NoMetrics

\* C3: a line of five integer fields deserializes successfully to the rect of
\* the first four, and maximized is true exactly when the fifth is 1.
C3_FlagCoercion ==
    (/\ mop = "deserialized"
     /\ Len(given.fields) = 5
     /\ \A i \in 1..5 : given.fields[i].int)
        => /\ parsed # NoMetrics
           /\ parsed.rect = wxRect(given.fields[1].val, given.fields[2].val,
                                   given.fields[3].val, given.fields[4].val)
           /\ parsed.maximized = (given.fields[5].val = 1)

C3_Witness ==
    /\ mop = "deserialized"
    /\ Len(given.fields) = 5
    /\ \A i \in 1..4 : given.fields[i].int
    /\ given.fields[5].int /\ given.fields[5].val = 3
    /\ parsed # NoMetrics
    /\ ~parsed.maximized

\* C4: after sanitize_for_display against a screen of positive width and
\* height the rect has a non-negative size and lies inside the screen.
C4_NeverOffScreen ==
    (/\ mop = "sanitized"
     /\ given.screen.width > 0
     /\ given.screen.height > 0)
        => /\ metrics.rect.width >= 0
           /\ metrics.rect.height >= 0
           /\ given.screen.x <= metrics.rect.x
           /\ given.screen.y <= metrics.rect.y
           /\ metrics.rect.x <= given.screen.x + given.screen.width
           /\ metrics.rect.y <= given.screen.y + given.screen.height
           /\ metrics.rect.width
                <= (given.screen.x + given.screen.width) - metrics.rect.x
           /\ metrics.rect.height
                <= (given.screen.y + given.screen.height) - metrics.rect.y

\* (4 * e) / 5 over the integers, the quotient truncated towards zero: with
\* e = 5q + r it is 4q + (4r) / 5, which needs no number beyond those of an int.
FourFifths(e) ==
    LET q == DivInt(e, 5)
    IN  4 * q + DivInt(4 * (e - 5 * q), 5)

\* C5: after sanitize_for_display the top-left is at most 4/5 of the screen's
\* width (height) away from the screen's origin, in each axis by itself; the
\* division is that of the language, the product and the sum those of the
\* integers.
C5_Threshold ==
    mop = "sanitized" =>
        /\ metrics.rect.x <= given.screen.x + FourFifths(given.screen.width)
        /\ metrics.rect.y <= given.screen.y + FourFifths(given.screen.height)

\* A rect inside the screen, right of the threshold and above the one of y: x
\* is moved to the threshold and y stays.
C5_Witness ==
    /\ mop = "sanitized"
    /\ given.screen.width > 0 /\ given.screen.height > 0
    /\ given.rect.width \in 1..given.screen.width
    /\ given.rect.height \in 1..given.screen.height
    /\ given.rect.x \in given.screen.x..(given.screen.x + given.screen.width)
    /\ given.rect.x + given.rect.width <= given.screen.x + given.screen.width
    /\ given.rect.x > given.screen.x + FourFifths(given.screen.width)
    /\ given.rect.y >= given.screen.y
    /\ given.rect.y < given.screen.y + FourFifths(given.screen.height)
    /\ metrics.rect.x = given.screen.x + FourFifths(given.screen.width)
    /\ metrics.rect.y = given.rect.y

(***************************************************************************)
(* The window-ready notifier and the DPI resolver as specifications.       *)
(***************************************************************************)
InitMetrics ==
    /\ metrics = NoMetrics
    /\ stored = <<>>
    /\ parsed = NoMetrics
    /\ mop = "none"
    /\ given = [none |-> TRUE]

InitNotifier ==
    /\ platform \in Platforms
    /\ InitWindow
    /\ InitMetrics
    /\ InitDpi({NoSystem})

NextNotifier == Register \/ ShowEvent \/ ProcessPending \/ Destroy

SpecNotifier == InitNotifier /\ [][NextNotifier]_vars

InitResolver ==
    /\ platform \in Platforms
    /\ InitWindow
    /\ InitMetrics
    /\ InitDpi(IF platform = "win32" THEN Systems ELSE {NoSystem})

NextResolver == get_dpi_for_window

SpecResolver == InitResolver /\ [][NextResolver]_vars

(***************************************************************************)
(* Properties of on_window_geometry.                                       *)
(***************************************************************************)
Markers ==
    {"on_window_geometry(", ")on_window_geometry", "wxEVT_SHOW(", ")wxEVT_SHOW",
     "pending(", ")pending", "destroy"}

\* Event i of the trace happens inside the bracket opened by open: open is the
\* last marker before i.
Inside(i, open) ==
    \E j \in 1..(i - 1) :
        /\ trace[j] = open
        /\ \A k \in (j + 1)..(i - 1) : trace[k] \notin Markers

\* C6: after the one call of on_window_geometry the callback is invoked at
\* most once, whatever show events and event-loop iterations follow.
C6_AtMostOnce == Count(trace, "callback") <= 1

\* C7: the callback runs inside the registration call on Windows, inside a
\* dispatch of the event loop after the show handler has returned on Linux
\* (never inside the handler), inside the show handler on macOS; on Linux and
\* macOS the handler ends by letting the event propagate (Skip).
C7_CallbackTiming ==
    \A i \in 1..Len(trace) :
        /\ trace[i] = "callback" =>
            CASE platform = "win32" -> Inside(i, "on_window_geometry(")
              [] platform = "linux" ->
                    /\ Inside(i, "pending(")
                    /\ ~Inside(i, "wxEVT_SHOW(")
                    /\ \E j \in 1..(i - 1) : \E k \in (j + 1)..(i - 1) :
                          trace[j] = "CallAfter" /\ trace[k] = ")wxEVT_SHOW"
              [] platform = "apple" ->
                    /\ Inside(i, "wxEVT_SHOW(")
                    /\ i + 2 <= Len(trace)
                    /\ trace[i + 1] = "Skip"
                    /\ trace[i + 2] = ")wxEVT_SHOW"
        /\ trace[i] = "CallAfter" =>
            /\ platform = "linux"
            /\ Inside(i, "wxEVT_SHOW(")
            /\ i + 2 <= Len(trace)
            /\ trace[i + 1] = "Skip"
            /\ trace[i + 2] = ")wxEVT_SHOW"

\* Linux: the handler has returned and the callback has then run from the loop.
C7_Witness ==
    /\ platform = "linux"
    /\ \E i \in 1..Len(trace) : \E j \in 1..Len(trace) :
        /\ i < j
        /\ trace[i] = ")wxEVT_SHOW"
        /\ trace[j] = "callback"

\* C8: nothing invokes the callback once the window is destroyed; on Linux
\* and macOS a window destroyed before any show handler ran never has its
\* callback invoked, and on Linux a call queued by the handler and not yet
\* dispatched at the destruction is dropped.
C8_NoDanglingInvocation ==
    /\ \A i \in 1..Len(trace) : \A j \in 1..Len(trace) :
        (i < j /\ trace[i] = "destroy") => trace[j] # "callback"
    /\ (/\ window = "destroyed"
        /\ platform # "win32"
        /\ Count(trace, "Skip") = 0) => Count(trace, "callback") = 0
    /\ window = "destroyed" => pending = <<>>

\* Linux: a call queued by the show handler was dropped by the destruction.
C8_Witness ==
    /\ platform = "linux"
    /\ window = "destroyed"
    /\ Count(trace, "CallAfter") > Count(trace, "callback")

(***************************************************************************)
(* Properties of get_dpi_for_window.                                       *)
(***************************************************************************)

\* C9: every call returns a positive integer, and the default DPI whenever
\* GetDpiForMonitor fails, no device context is to be had on the legacy path,
\* or the platform has no DPI query.
C9_TotalWithDefault ==
    ncalls > 0 =>
        /\ dpi \in Nat /\ dpi > 0
        /\ branch \in {"monitor_failed", "no_dc", "stub"} => dpi = DPI_DEFAULT
        /\ platform # "win32" => branch = "stub"

\* Windows 8.1 (no GetDpiForWindow): GetDpiForMonitor failed, the default is returned.
C9_Witness ==
    /\ platform = "win32"
    /\ ncalls > 0
    /\ branch = "monitor_failed"
    /\ dpi = DPI_DEFAULT

\* C10: each optional function is looked up at most once, at the first call;
\* what the lookup found (a pointer, or none) never changes afterwards, and
\* every later call takes the level of the fallback chain the first one took.
C10_ProbedOnce ==
    /\ [](/\ \A F \in Capabilities : lookups[F] <= 1
          /\ (platform = "win32" /\ ncalls > 0) =>
                \A F \in Capabilities : lookups[F] = 1 /\ fn[F] # "unset"
          /\ ncalls > 0 => Level(branch) = Level(first))
    /\ [][\A F \in Capabilities :
            /\ fn[F] # "unset" => fn'[F] = fn[F]
            /\ dll_handle[F] # "unset" => dll_handle'[F] = dll_handle[F]
            /\ fn[F] # "unset" => lookups'[F] = lookups[F]]_vars

\* A second call on a system without GetDpiForWindow: nothing is looked up again.
C10_Witness ==
    /\ platform = "win32"
    /\ ncalls >= 2
    /\ fn["GetDpiForWindow"] = "null"
    /\ fn["GetDpiForMonitor"] = "found"
    /\ \A F \in Capabilities : lookups[F] = 1

====
